---- MODULE Spec2Model ----
(***************************************************************************)
(* The chat client of the RAG system: ChatInterface.handleSendMessage with *)
(* its streaming receiver, MessageInput.handleSend, the searchParams       *)
(* effect and loadConversationHistory, over the api.ts client functions.   *)
(*                                                                         *)
(* A JavaScript string is a sequence of one-character strings.  The bytes  *)
(* of a response body are the same one-character strings for ASCII, and    *)
(* the two bytes "C3", "A9" for the one two-byte character "U+E9".         *)
(***************************************************************************)
EXTENDS Naturals, Sequences, FiniteSets, TLC

VARIABLES
    messages,        \* useState<Message[]>: the visible history
    isLoading,       \* useState(false)
    conversationId,  \* useState<string | null>
    error,           \* useState<string | null>
    url,             \* the "conversation" search parameter of the page URL
    effectPending,   \* the searchParams effect is scheduled and has not run
    historyLoads,    \* loadConversationHistory calls awaiting getChatHistory
    token,           \* localStorage "auth_token"
    clock,           \* Date.now()
    pc,              \* where the running handleSendMessage call is
    closureConv,     \* conversationId as captured by the running call
    sentContent,     \* content argument of the running call
    sentConv,        \* conversation_id of the request body of the running call
    requests,        \* how many chat requests sendChatMessage has sent
    draftId,         \* assistantMessageId of the running (or last) call
    wire,            \* the bytes of the response body
    pos,             \* how many of them reader.read() has delivered
    decoderPending,  \* bytes the TextDecoder holds back (stream: true)
    buffer,          \* let buffer
    events,          \* the events of the current read still to be processed
    assistantContent,\* let assistantContent
    resumed,         \* a read has started with text or bytes held back
    turnState,       \* Idle, Sending, Completed, Errored: the transport's state
    turnsLeft,       \* turns the user may still submit (bounds the model)
    framesLeft,      \* frames the server may still send (bounds the model)
    lastSubmit,      \* what the last call of MessageInput.handleSend did
    file,            \* DocumentUpload: useState<File | null>, by its name
    uploading,       \* DocumentUpload: useState(false)
    progress,        \* DocumentUpload: useState(0)
    uploadError,     \* DocumentUpload: the error state, useState("")
    uploadPc,        \* where the running handleUpload call is
    uploadArg,       \* the file the running uploadDocument call was given
    uploaded,        \* the files uploadDocument has sent a request for
    answer,          \* xhr.status and xhr.responseText of the last request
    completed,       \* the responses handed to onUploadComplete
    picked,          \* the file last given to validateAndSetFile
    uploadsLeft,     \* uploads the user may still start (bounds the model)
    user,            \* AuthProvider: useState<User | null>
    loading,         \* AuthProvider: useState(true)
    authPc,          \* where checkAuth of AuthProvider is
    logouts,         \* the api.logout calls awaiting their request, by caller
    route,           \* the page the router is on
    rendered,        \* what ProtectedRoute has rendered last
    routeEffect,     \* the effect of ProtectedRoute is scheduled
    sent,            \* the requests handed to fetch or XMLHttpRequest
    lastCall,        \* the last call of an api.ts function and how it ended
    callsLeft,       \* api.ts calls still to be made (bounds the model)
    documents,       \* the Documents that are observable (table documents)
    chunks,          \* the Chunks that are observable
    entries,         \* the VectorIndexEntries that are observable
    ingest,          \* the ingestion of each document: where it is
    log,             \* ConversationStateManager: the persisted messages of each conversation
    writer,          \* the append that holds each conversation (single writer), or Null
    appends,         \* the append calls in progress, by caller
    appendsLeft,     \* append calls still to be issued (bounds the model)
    listed,          \* DocumentList: useState<Document[]>([]), the documents by id
    listLoading,     \* DocumentList: useState(true)
    listError,       \* DocumentList: the error state, useState("")
    deletingId,      \* DocumentList: useState<string | null>(null)
    listPc,          \* where fetchDocuments of the mount effect is
    deletes,         \* the handleDelete calls awaiting deleteDocument: id and the documents they captured
    deletedOk,       \* the ids deleteDocument has succeeded for
    alerts,          \* how many times alert() was called
    served,          \* the documents the server holds, in its order
    deletesLeft,     \* deletions the user may still start (bounds the model)
    mePc,            \* where the getCurrentUser call is
    meAnswer,        \* response.status and the body of the answer to GET /api/auth/me
    meResult,        \* how the last getCurrentUser call settled
    meLeft,          \* getCurrentUser calls still to be made (bounds the model)
    username,        \* RegisterPage: useState("")
    email,           \* RegisterPage: useState("")
    password,        \* RegisterPage: useState("")
    confirmPassword, \* RegisterPage: useState("")
    registerError,   \* RegisterPage: the error state, useState("")
    registerLoading, \* RegisterPage: the loading state, useState(false)
    registered,      \* the arguments of the register calls made
    registerPc,      \* where the running handleSubmit call is
    submitsLeft,     \* submissions of the form still to be made (bounds the model)
    analysis,        \* useWeaknessAnalysis: useState<WeaknessAnalysisResponse | null>(null)
    analysisIsLoading, \* useWeaknessAnalysis: isLoading, useState(false)
    analysisError,   \* useWeaknessAnalysis: error, useState<string | null>(null)
    fetches,         \* the fetchAnalysis and fetchMockAnalysis calls awaiting their request
    lastSettled,     \* how the call that settled last ended
    fetchesLeft      \* calls still to be made (bounds the model)

vars == <<messages, isLoading, conversationId, error, url, effectPending,
          historyLoads, token, clock, pc, closureConv, sentContent, sentConv,
          requests, draftId, wire, pos, decoderPending, buffer, events,
          assistantContent, resumed, turnState, turnsLeft, framesLeft,
          lastSubmit, file, uploading, progress, uploadError, uploadPc,
          uploadArg, uploaded, answer, completed, picked,
          uploadsLeft, user, loading, authPc, logouts, route, rendered,
          routeEffect, sent, lastCall, callsLeft, documents, chunks, entries,
          ingest,
          log, writer, appends, appendsLeft,
          listed, listLoading, listError, deletingId, listPc, deletes, deletedOk, alerts, served, deletesLeft,
          mePc, meAnswer, meResult, meLeft,
          username, email, password, confirmPassword, registerError, registerLoading, registered, registerPc, submitsLeft,
          analysis, analysisIsLoading, analysisError, fetches, lastSettled, fetchesLeft>>

---------------------------------------------------------------------------
(* Bounds of the model.                                                    *)

MaxTurns == 2
MaxFrames == 2
MaxUploads == 2
MaxLogouts == 2
MaxCalls == 2
MaxChunks == 2
MaxRetries == 1
MaxAppends == 3
MaxDeletes == 3
MaxCurrentUserCalls == 2
MaxSubmits == 2
MaxFetches == 3

---------------------------------------------------------------------------
(* Values.                                                                 *)

\* null, for a conversation id, a URL parameter or a token
Null == "null"
\* the error state: null, or a string
NoError == <<"null">>
Err(s) == <<"str", s>>
\* a fixed text of the program, kept as one unit
Lit(t) == <<t>>
\* Message.isStreaming: absent, true or false
Undefined == "undefined"
True == "true"
False == "false"

NL == "\n"
SP == " "

DataTag == <<"d", "a", "t", "a", ":", SP>>
Sentinel == <<"[", "E", "R", "R", "O", "R", "]">>
Delim == <<NL, NL>>
TagLen == 6
SentinelLen == 7

---------------------------------------------------------------------------
(* String functions of JavaScript.                                         *)

StartsWith(s, p) ==
    /\ Len(s) >= Len(p)
    /\ SubSeq(s, 1, Len(p)) = p

\* s.slice(n)
Slice(s, n) == SubSeq(s, n + 1, Len(s))

IsSpace(c) == c \in {SP, NL}

RECURSIVE TrimStart(_)
TrimStart(s) ==
    IF s # <<>> /\ IsSpace(Head(s)) THEN TrimStart(Tail(s)) ELSE s

RECURSIVE TrimEnd(_)
TrimEnd(s) ==
    IF s # <<>> /\ IsSpace(s[Len(s)])
    THEN TrimEnd(SubSeq(s, 1, Len(s) - 1))
    ELSE s

\* s.trim()
Trim(s) == TrimEnd(TrimStart(s))

\* s.indexOf(sep) + 1: where sep first occurs in s, 0 when it does not
IndexOf(s, sep) ==
    LET hits == {i \in 1..(Len(s) + 1 - Len(sep)) :
                    SubSeq(s, i, i + Len(sep) - 1) = sep}
    IN IF hits = {} THEN 0
       ELSE CHOOSE i \in hits : \A j \in hits : i <= j

\* s.split(sep), sep not empty: the pieces between the leftmost
\* non-overlapping occurrences of sep; always at least one piece.
RECURSIVE Split(_, _)
Split(s, sep) ==
    LET at == IndexOf(s, sep)
    IN IF at = 0 THEN <<s>>
       ELSE <<SubSeq(s, 1, at - 1)>> \o Split(Slice(s, at - 1 + Len(sep)), sep)

RECURSIVE Concat(_)
Concat(ss) == IF ss = <<>> THEN <<>> ELSE Head(ss) \o Concat(Tail(ss))

---------------------------------------------------------------------------
(* TextDecoder.decode(value, {stream: true}) for UTF-8, over the bytes of  *)
(* the model: an incomplete character at the end of a read is held back.   *)

Replacement == "U+FFFD"

\* what byte i of bs gives: a character, or nothing for the second byte of
\* a character and for a first byte whose second byte has not arrived
Nothing == ""
Decoded(bs, i) ==
    IF bs[i] = "C3"
    THEN IF i = Len(bs) THEN Nothing
         ELSE IF bs[i + 1] = "A9" THEN "U+E9" ELSE Replacement
    ELSE IF bs[i] = "A9"
         THEN IF i > 1 /\ bs[i - 1] = "C3" THEN Nothing ELSE Replacement
         ELSE bs[i]

\* out: the characters decoded; rest: the bytes held back for the next call
Decode(pending, value) ==
    LET bs == pending \o value
        IsChar(c) == c # Nothing
    IN [out |-> SelectSeq([i \in 1..Len(bs) |-> Decoded(bs, i)], IsChar),
        rest |-> IF bs # <<>> /\ bs[Len(bs)] = "C3" THEN <<"C3">> ELSE <<>>]

---------------------------------------------------------------------------
(* The receiver of handleSendMessage.                                      *)

\* the buffer emptied after every read
RetainNothing(pieces) == <<>>

\* buffer = events.pop() || ""
Retain(pieces) == pieces[Len(pieces)]

\* the last piece taken for a complete event too
CompleteEventsAll(pieces) == pieces

\* the events a read completes: all pieces but the last
CompleteEvents(pieces) == SubSeq(pieces, 1, Len(pieces) - 1)

\* the payload trimmed before it is appended
ProcessLineTrimmed(st, line) ==
    IF st.thrown \/ ~StartsWith(line, DataTag) THEN st
    ELSE LET content == Trim(Slice(line, TagLen))
         IN IF content # <<>> /\ ~StartsWith(content, Sentinel)
            THEN [st EXCEPT !.content = st.content \o content,
                            !.updated = TRUE]
            ELSE IF StartsWith(content, Sentinel)
                 THEN [st EXCEPT !.thrown = TRUE,
                                 !.err = Trim(Slice(content, SentinelLen))]
                 ELSE st

\* the Error thrown with the whole payload, sentinel included
ProcessLineWholePayload(st, line) ==
    IF st.thrown \/ ~StartsWith(line, DataTag) THEN st
    ELSE LET content == Slice(line, TagLen)
         IN IF content # <<>> /\ ~StartsWith(content, Sentinel)
            THEN [st EXCEPT !.content = st.content \o content,
                            !.updated = TRUE]
            ELSE IF StartsWith(content, Sentinel)
                 THEN [st EXCEPT !.thrown = TRUE, !.err = Trim(content)]
                 ELSE st

\* One line of an event inside the read loop.  st is [content, updated,
\* thrown, err]: the accumulated content, whether setMessages was called,
\* and the Error thrown, if any.
ProcessLine(st, line) ==
    IF st.thrown \/ ~StartsWith(line, DataTag) THEN st
    ELSE LET content == Slice(line, TagLen)
         IN IF content # <<>> /\ ~StartsWith(content, Sentinel)
            THEN [st EXCEPT !.content = st.content \o content,
                            !.updated = TRUE]
            ELSE IF StartsWith(content, Sentinel)
                 THEN [st EXCEPT !.thrown = TRUE,
                                 !.err = Trim(Slice(content, SentinelLen))]
                 ELSE st

\* One line of the remaining buffer after the stream has ended.
ProcessTailLine(st, line) ==
    IF ~StartsWith(line, DataTag) THEN st
    ELSE LET content == Slice(line, TagLen)
         IN IF content # <<>> /\ ~StartsWith(content, Sentinel)
            THEN [st EXCEPT !.content = st.content \o content,
                            !.updated = TRUE]
            ELSE st

RECURSIVE ProcessLines(_, _)
ProcessLines(st, lines) ==
    IF lines = <<>> THEN st
    ELSE ProcessLines(ProcessLine(st, Head(lines)), Tail(lines))

RECURSIVE ProcessTailLines(_, _)
ProcessTailLines(st, lines) ==
    IF lines = <<>> THEN st
    ELSE ProcessTailLines(ProcessTailLine(st, Head(lines)), Tail(lines))

Start(content) ==
    [content |-> content, updated |-> FALSE, thrown |-> FALSE, err |-> <<>>]

\* for (const line of event.split("\n")) ...
ProcessEvent(content, event) == ProcessLines(Start(content), Split(event, <<NL>>))

\* if (buffer) { for (const line of buffer.split("\n")) ... }
ProcessRemaining(content, buf) ==
    IF buf = <<>> THEN Start(content)
    ELSE ProcessTailLines(Start(content), Split(buf, <<NL>>))

---------------------------------------------------------------------------
(* setMessages updaters.                                                   *)

Message(id, role, content, streaming) ==
    [id |-> id, role |-> role, content |-> content, isStreaming |-> streaming]

\* the content set on every assistant message of the list
SetDraftContentByRole(prev, id, content) ==
    [i \in DOMAIN prev |->
        IF prev[i].role = "assistant"
        THEN [prev[i] EXCEPT !.content = content, !.isStreaming = True]
        ELSE prev[i]]

\* prev.map(msg => msg.id === id ? {...msg, content, isStreaming: true} : msg)
SetDraftContent(prev, id, content) ==
    [i \in DOMAIN prev |->
        IF prev[i].id = id
        THEN [prev[i] EXCEPT !.content = content, !.isStreaming = True]
        ELSE prev[i]]

\* prev.map(msg => msg.id === id ? {...msg, isStreaming: false} : msg)
MarkComplete(prev, id) ==
    [i \in DOMAIN prev |->
        IF prev[i].id = id
        THEN [prev[i] EXCEPT !.isStreaming = False]
        ELSE prev[i]]

\* prev.filter(msg => msg.id !== id)
RECURSIVE RemoveDraft(_, _)
RemoveDraft(prev, id) ==
    IF prev = <<>> THEN <<>>
    ELSE IF Head(prev).id = id
         THEN RemoveDraft(Tail(prev), id)
         ELSE <<Head(prev)>> \o RemoveDraft(Tail(prev), id)

---------------------------------------------------------------------------
(* The environment: what the user types and what the server sends.         *)

\* what the user has typed into the input of MessageInput
Inputs == {<<>>, <<SP>>, <<SP, "h", "i", SP>>}

ConvIds == {"c1"}
Tokens == {"t1"}

\* a frame on the wire: data: <payload>, then the blank-line delimiter
Frame(payload) == DataTag \o payload \o Delim

Hello == <<"h", "e", "l", "l", "o">>
Partial == <<"p", "a", "r", "t", "i", "a", "l">>
RateLimited == <<"r", "a", "t", "e", SP, "l", "i", "m", "i", "t", "e", "d">>

\* payloads of one line
DataPayloads ==
    { Hello, Partial, <<SP, SP>>, <<SP, "a", SP>>, <<"C3", "A9">>, <<>> }
ErrorPayloads ==
    { Sentinel \o <<SP>> \o RateLimited,
      Sentinel \o <<SP, SP, "n", "o", SP>>,
      Sentinel }
\* payloads of several lines
MultiLinePayloads ==
    { <<"a", NL, "b">>,
      <<"a", NL>> \o DataTag \o <<"b">>,
      <<"x", NL>> \o DataTag \o Sentinel }

Payloads == DataPayloads \cup ErrorPayloads \cup MultiLinePayloads

\* what the server may send as one unit: a frame, or an event with no
\* data line
Terminated == {Frame(p) : p \in Payloads} \cup {<<":", "k">> \o Delim}
\* a frame the stream ends in the middle of
Unterminated ==
    { DataTag \o <<"h", "i">>, DataTag \o Sentinel \o <<SP, "n", "o">> }

\* the units of the turns of a whole conversation
ChatTerminated ==
    { Frame(Hello), Frame(<<SP, SP>>), Frame(Sentinel \o <<SP, "n", "o">>) }
ChatUnterminated == { DataTag \o <<"h", "i">> }

\* the response bodies of k units; only the last may be unterminated
Bodies(T, U, k) ==
    { Concat(f) : f \in { g \in [1..k -> T \cup U] :
                            \A i \in 1..(k - 1) : g[i] \in T } }

---------------------------------------------------------------------------
(* api.ts                                                                  *)

API_BASE_URL == "http://localhost:8000"

\* authenticatedFetch: fetch(`${API_BASE_URL}${endpoint}`), a URL as the
\* sequence of its parts
AuthenticatedFetchUrl(endpoint) == <<API_BASE_URL>> \o endpoint

\* getChatHistory(conversationId): the URL it hands to authenticatedFetch
\* already starts with API_BASE_URL
GetChatHistoryUrl(c) ==
    AuthenticatedFetchUrl(<<API_BASE_URL, "/api/chat/history?conversation_id=", c>>)

\* the URLs the backend serves chat history at
HistoryEndpoint(u) ==
    /\ Len(u) = 3
    /\ u[1] = API_BASE_URL
    /\ u[2] = "/api/chat/history?conversation_id="

\* how getChatHistory can settle: with the history only when the request
\* reaches the history endpoint
GetChatHistoryOutcomes(c) ==
    IF HistoryEndpoint(GetChatHistoryUrl(c))
    THEN {"messages", "no messages", "not ok", "rejected"}
    ELSE {"not ok", "rejected"}

\* what the server may hold as the history of a conversation
Histories ==
    { <<>>,
      << Message(<<"srv", 1>>, "user", <<"h", "i">>, Undefined) >>,
      << Message(<<"srv", 1>>, "user", <<"h", "i">>, Undefined),
         Message(<<"srv", 2>>, "assistant", Hello, Undefined) >> }

\* how sendChatMessage can fail once the request is sent
ChatFailures == { Lit("Failed to fetch"), Lit("Chat request failed") }

---------------------------------------------------------------------------
(* The state after ChatInterface has mounted: the searchParams effect has  *)
(* run once, and has started a history load when the URL names a           *)
(* conversation.                                                           *)

Init ==
    /\ messages = <<>>
    /\ isLoading = FALSE
    /\ error = NoError
    /\ url \in {Null} \cup ConvIds
    /\ conversationId = url
    /\ effectPending = FALSE
    /\ historyLoads = IF url = Null THEN <<>> ELSE <<url>>
    /\ token \in {Null} \cup Tokens
    /\ clock = 0
    /\ pc = "idle"
    /\ closureConv = Null
    /\ sentContent = <<>>
    /\ sentConv = Null
    /\ requests = 0
    /\ draftId = <<"assistant", 0>>
    /\ wire = <<>>
    /\ pos = 0
    /\ decoderPending = <<>>
    /\ buffer = <<>>
    /\ events = <<>>
    /\ assistantContent = <<>>
    /\ resumed = FALSE
    /\ turnState = "Idle"
    /\ turnsLeft = MaxTurns
    /\ framesLeft = MaxFrames
    /\ lastSubmit = "none"
    /\ file = <<>>
    /\ uploading = FALSE
    /\ progress = 0
    /\ uploadError = <<>>
    /\ uploadPc = "idle"
    /\ uploadArg = <<>>
    /\ uploaded = {}
    /\ answer = [status |-> 0, body |-> [kind |-> "none", detail |-> <<>>]]
    /\ completed = <<>>
    /\ picked = <<>>
    /\ uploadsLeft = MaxUploads
    /\ user = Null
    /\ loading = TRUE
    /\ authPc = "mount"
    /\ logouts = <<>>
    /\ route = "/chat"
    /\ rendered = "loading"
    /\ routeEffect = TRUE
    /\ sent = {}
    /\ lastCall = <<>>
    /\ callsLeft = MaxCalls
    /\ documents = {}
    /\ chunks = {}
    /\ entries = {}
    /\ ingest = [d \in {"d1", "d2"} |->
                   [pc |-> "idle", n |-> 0, embedded |-> {}, attempts |-> 0,
                    staged |-> {}]]
    /\ log = [c \in {"c1", "c2"} |-> <<>>]
    /\ writer = [c \in {"c1", "c2"} |-> Null]
    /\ appends = [a \in {"a1", "a2"} |-> [pc |-> "idle", conv |-> Null, role |-> Null, next |-> 0]]
    /\ appendsLeft = MaxAppends
    /\ listed = <<>>
    /\ listLoading = TRUE
    /\ listError = <<>>
    /\ deletingId = Null
    /\ listPc = "fetching"
    /\ deletes = {}
    /\ deletedOk = {}
    /\ alerts = 0
    /\ served = <<"d1", "d2", "d3">>
    /\ deletesLeft = MaxDeletes
    /\ mePc = "idle"
    /\ meAnswer = [status |-> 0, body |-> [kind |-> "none", detail |-> <<>>]]
    /\ meResult = <<>>
    /\ meLeft = MaxCurrentUserCalls
    /\ username = <<>>
    /\ email = <<>>
    /\ password = <<>>
    /\ confirmPassword = <<>>
    /\ registerError = <<>>
    /\ registerLoading = FALSE
    /\ registered = <<>>
    /\ registerPc = "idle"
    /\ submitsLeft = MaxSubmits
    /\ analysis = Null
    /\ analysisIsLoading = FALSE
    /\ analysisError = Null
    /\ fetches = {}
    /\ lastSettled = "none"
    /\ fetchesLeft = MaxFetches

\* the state of DocumentUpload and of its uploadDocument call
documentUpload == <<file, uploading, progress, uploadError, uploadPc,
                    uploadArg, uploaded, answer, completed, picked,
          uploadsLeft>>
\* the state of the chat page
chat == <<messages, isLoading, conversationId, error, url, effectPending,
          historyLoads, clock, pc, closureConv, sentContent, sentConv,
          requests, draftId, wire, pos, decoderPending, buffer, events,
          assistantContent, resumed, turnState, turnsLeft, framesLeft,
          lastSubmit>>
\* what no step of the chat page touches
\* the state of AuthProvider, ProtectedRoute and the router
session == <<user, loading, authPc, logouts, route, rendered, routeEffect>>
\* the record of the calls of the api.ts functions
calls == <<sent, lastCall, callsLeft>>
\* the stores of the backend and its ingestions
store == <<documents, chunks, entries, ingest>>
\* the components that follow
\* ConversationStateManager: the persisted messages and the appends in progress
manager == <<log, writer, appends, appendsLeft>>
\* the state of DocumentList, its calls and the documents the server holds
documentList == <<listed, listLoading, listError, deletingId, listPc, deletes,
                  deletedOk, alerts, served, deletesLeft>>
\* the getCurrentUser call in progress, its answer and how it settled
currentUser == <<mePc, meAnswer, meResult, meLeft>>
\* the state of RegisterPage and the register calls it has made
registerPage == <<username, email, password, confirmPassword, registerError,
                  registerLoading, registered, registerPc, submitsLeft>>
\* the state of useWeaknessAnalysis and its calls in progress
weaknessAnalysis == <<analysis, analysisIsLoading, analysisError, fetches,
                      lastSettled, fetchesLeft>>
rest == <<manager, documentList, currentUser, registerPage, weaknessAnalysis>>
elsewhere == <<documentUpload, session, calls, store, rest>>

\* everything but the components that follow
front == <<chat, token, documentUpload, session, calls, store>>

\* what the steps of each of them leave alone
outsideManager == <<front, documentList, currentUser, registerPage,
                    weaknessAnalysis>>
outsideDocumentList == <<front, manager, currentUser, registerPage,
                         weaknessAnalysis>>
outsideCurrentUser == <<chat, documentUpload, session, store, manager,
                        documentList, registerPage, weaknessAnalysis>>
outsideRegisterPage == <<front, manager, documentList, currentUser,
                         weaknessAnalysis>>
outsideWeaknessAnalysis == <<front, manager, documentList, currentUser,
                             registerPage>>

receiver == <<wire, pos, decoderPending, buffer, events, assistantContent,
              resumed>>
page == <<conversationId, url, effectPending, historyLoads>>
call == <<closureConv, sentContent, sentConv, requests, draftId, clock>>

\* a synchronous stretch of handleSendMessage is running: no other callback
\* and no user event runs in between
Running == pc \in {"events", "rejected"}

---------------------------------------------------------------------------
(* MessageInput.handleSend and the start of handleSendMessage.             *)

\* a submission accepted while a turn is in flight
SendGuardIgnoresLoading(input) == Trim(input) # <<>>

\* handleSend: trimmed && !isLoading; handleSendMessage:
\* if (!content.trim() || isLoading) return
SendGuard(input) ==
    LET trimmed == Trim(input)
    IN /\ trimmed # <<>> /\ ~isLoading
       /\ ~(Trim(trimmed) = <<>> \/ isLoading)

\* The submission is accepted: the user message and the empty draft are
\* appended, and sendChatMessage runs up to its fetch.
Send(input) ==
    /\ ~Running
    /\ SendGuard(input)
    /\ turnsLeft > 0
    /\ turnsLeft' = turnsLeft - 1
    /\ LET content == Trim(input)
           now == clock + 1
       IN /\ clock' = now
          /\ error' = NoError
          /\ messages' = messages \o
                << Message(<<"user", now>>, "user", content, Undefined),
                   Message(<<"assistant", now>>, "assistant", <<>>, True) >>
          /\ draftId' = <<"assistant", now>>
          /\ sentContent' = content
    /\ isLoading' = TRUE
    /\ closureConv' = conversationId
    /\ IF token = Null
       THEN /\ pc' = "rejected"
            /\ UNCHANGED <<sentConv, requests>>
       ELSE /\ pc' = "fetch"
            /\ sentConv' = conversationId
            /\ requests' = requests + 1
    /\ wire' = <<>>
    /\ pos' = 0
    /\ decoderPending' = <<>>
    /\ buffer' = <<>>
    /\ events' = <<>>
    /\ assistantContent' = <<>>
    /\ resumed' = FALSE
    /\ turnState' = "Sending"
    /\ lastSubmit' = "accepted"
    /\ UNCHANGED <<page, token, framesLeft>>
    /\ UNCHANGED elsewhere

\* The submission is refused: nothing but the record of it changes.
SendRejected(input) ==
    /\ ~Running
    /\ ~SendGuard(input)
    /\ lastSubmit' = IF Trim(input) = <<>> THEN "empty" ELSE "busy"
    /\ UNCHANGED <<messages, isLoading, error, page, token, pc, call,
                   receiver, turnState, turnsLeft, framesLeft>>
    /\ UNCHANGED elsewhere

---------------------------------------------------------------------------
(* catch and finally of handleSendMessage.                                 *)

\* the draft kept, and marked complete, when the turn fails
CatchKeepsDraft(prev, message) ==
    /\ error' = Err(message)
    /\ messages' = MarkComplete(prev, draftId)
    /\ isLoading' = FALSE
    /\ pc' = "idle"
    /\ turnState' = "Errored"

\* the user message of the turn removed with the draft
CatchDropsTurn(prev, message) ==
    /\ error' = Err(message)
    /\ messages' = SubSeq(prev, 1, Len(prev) - 2)
    /\ isLoading' = FALSE
    /\ pc' = "idle"
    /\ turnState' = "Errored"

\* isLoading left true when the turn fails (no finally)
CatchStaysLoading(prev, message) ==
    /\ error' = Err(message)
    /\ messages' = RemoveDraft(prev, draftId)
    /\ isLoading' = TRUE
    /\ pc' = "idle"
    /\ turnState' = "Errored"

Catch(prev, message) ==
    /\ error' = Err(message)
    /\ messages' = RemoveDraft(prev, draftId)
    /\ isLoading' = FALSE
    /\ pc' = "idle"
    /\ turnState' = "Errored"

\* sendChatMessage found no token
NotAuthenticated ==
    /\ pc = "rejected"
    /\ Catch(messages, Lit("Not authenticated"))
    /\ UNCHANGED <<page, token, call, receiver, turnsLeft, framesLeft, lastSubmit>>
    /\ UNCHANGED elsewhere

\* the fetch was rejected, or the response was not ok
ChatRequestFails(reason) ==
    /\ pc = "fetch"
    /\ Catch(messages, reason)
    /\ UNCHANGED <<page, token, call, receiver, turnsLeft, framesLeft, lastSubmit>>
    /\ UNCHANGED elsewhere

---------------------------------------------------------------------------
(* The response has arrived.                                               *)

\* the id of every response adopted, held or not
AdoptConversationAlways(header) ==
    IF header # Null
    THEN /\ conversationId' = header
         /\ url' = header
         /\ effectPending' = (effectPending \/ url # header)
         /\ UNCHANGED historyLoads
    ELSE UNCHANGED page

\* if (newConversationId && !conversationId) { setConversationId; push }
AdoptConversation(header) ==
    IF header # Null /\ closureConv = Null
    THEN /\ conversationId' = header
         /\ url' = header
         /\ effectPending' = (effectPending \/ url # header)
         /\ UNCHANGED historyLoads
    ELSE UNCHANGED page

RespondNoBody(header) ==
    /\ pc = "fetch"
    /\ AdoptConversation(header)
    /\ Catch(messages, Lit("No response body"))
    /\ UNCHANGED <<token, call, receiver, turnsLeft, framesLeft, lastSubmit>>
    /\ UNCHANGED elsewhere

RespondStream(header, k, body) ==
    /\ pc = "fetch"
    /\ k <= framesLeft
    /\ AdoptConversation(header)
    /\ wire' = body
    /\ framesLeft' = framesLeft - k
    /\ pos' = 0
    /\ decoderPending' = <<>>
    /\ buffer' = <<>>
    /\ events' = <<>>
    /\ assistantContent' = <<>>
    /\ resumed' = FALSE
    /\ pc' = "read"
    /\ UNCHANGED <<messages, isLoading, error, token, call, turnState,
                   turnsLeft, lastSubmit>>
    /\ UNCHANGED elsewhere

---------------------------------------------------------------------------
(* The read loop.                                                          *)

\* reader.read() delivers the next n bytes
Read(n) ==
    /\ pc = "read"
    /\ pos + n <= Len(wire)
    /\ LET value == SubSeq(wire, pos + 1, pos + n)
           d == Decode(decoderPending, value)
           pieces == Split(buffer \o d.out, Delim)
       IN /\ decoderPending' = d.rest
          /\ buffer' = Retain(pieces)
          /\ events' = CompleteEvents(pieces)
          /\ pc' = IF CompleteEvents(pieces) = <<>> THEN "read" ELSE "events"
    /\ pos' = pos + n
    /\ resumed' = (resumed \/ buffer # <<>> \/ decoderPending # <<>>)
    /\ UNCHANGED <<messages, isLoading, error, page, token, call, wire,
                   assistantContent, turnState, turnsLeft, framesLeft, lastSubmit>>
    /\ UNCHANGED elsewhere

\* the body of for (const event of events), for the next event
HandleEvent ==
    /\ pc = "events"
    /\ LET r == ProcessEvent(assistantContent, Head(events))
           shown == IF r.updated
                    THEN SetDraftContent(messages, draftId, r.content)
                    ELSE messages
       IN /\ assistantContent' = r.content
          /\ IF r.thrown
             THEN /\ Catch(shown, r.err)
                  /\ events' = <<>>
             ELSE /\ messages' = shown
                  /\ events' = Tail(events)
                  /\ pc' = IF Tail(events) = <<>> THEN "read" ELSE "events"
                  /\ UNCHANGED <<isLoading, error, turnState>>
    /\ UNCHANGED <<page, token, call, wire, pos, decoderPending, buffer,
                   resumed, turnsLeft, framesLeft, lastSubmit>>
    /\ UNCHANGED elsewhere

\* a failed read taken for the end of the stream
ReadFailsMarksComplete ==
    /\ pc = "read"
    /\ error' = Err(Lit("network error"))
    /\ messages' = MarkComplete(messages, draftId)
    /\ isLoading' = FALSE
    /\ pc' = "idle"
    /\ turnState' = "Errored"
    /\ UNCHANGED <<page, token, call, receiver, turnsLeft, framesLeft, lastSubmit>>
    /\ UNCHANGED elsewhere

\* reader.read() rejects
ReadFails ==
    /\ pc = "read"
    /\ Catch(messages, Lit("network error"))
    /\ UNCHANGED <<page, token, call, receiver, turnsLeft, framesLeft, lastSubmit>>
    /\ UNCHANGED elsewhere

\* reader.read() reports done: the remaining buffer is processed, the draft
\* is marked complete
StreamEnd ==
    /\ pc = "read"
    /\ pos = Len(wire)
    /\ LET r == ProcessRemaining(assistantContent, buffer)
           shown == IF r.updated
                    THEN SetDraftContent(messages, draftId, r.content)
                    ELSE messages
       IN /\ assistantContent' = r.content
          /\ messages' = MarkComplete(shown, draftId)
    /\ isLoading' = FALSE
    /\ pc' = "idle"
    /\ turnState' = "Completed"
    /\ UNCHANGED <<error, page, token, call, wire, pos, decoderPending,
                   buffer, events, resumed, turnsLeft, framesLeft,
                   lastSubmit>>
    /\ UNCHANGED elsewhere

---------------------------------------------------------------------------
(* The searchParams effect and loadConversationHistory.                    *)

SearchParamsEffect ==
    /\ ~Running
    /\ effectPending
    /\ effectPending' = FALSE
    /\ IF url # Null
       THEN /\ conversationId' = url
            /\ historyLoads' = Append(historyLoads, url)
       ELSE UNCHANGED <<conversationId, historyLoads>>
    /\ UNCHANGED <<messages, isLoading, error, url, token, pc, call,
                   receiver, turnState, turnsLeft, framesLeft, lastSubmit>>
    /\ UNCHANGED elsewhere

\* getChatHistory settles
HistorySettles(outcome) ==
    /\ ~Running
    /\ historyLoads # <<>>
    /\ outcome \in GetChatHistoryOutcomes(Head(historyLoads))
    /\ historyLoads' = Tail(historyLoads)
    /\ CASE outcome = "messages" ->
              /\ \E h \in Histories : messages' = h
              /\ UNCHANGED error
         [] outcome = "no messages" -> UNCHANGED <<messages, error>>
         [] OTHER ->
              /\ error' = Err(Lit("Failed to load conversation history"))
              /\ UNCHANGED messages
    /\ UNCHANGED <<isLoading, conversationId, url, effectPending, token, pc,
                   call, receiver, turnState, turnsLeft, framesLeft, lastSubmit>>
    /\ UNCHANGED elsewhere

---------------------------------------------------------------------------

Next ==
    \/ \E input \in Inputs : Send(input)
    \/ \E input \in Inputs : SendRejected(input)
    \/ NotAuthenticated
    \/ \E reason \in ChatFailures : ChatRequestFails(reason)
    \/ \E header \in {Null} \cup ConvIds : RespondNoBody(header)
    \/ \E header \in {Null} \cup ConvIds : \E k \in 0..MaxFrames :
           \E body \in Bodies(ChatTerminated, ChatUnterminated, k) :
               RespondStream(header, k, body)
    \/ \E n \in 1..(Len(wire) - pos) : Read(n)
    \/ HandleEvent
    \/ ReadFails
    \/ StreamEnd
    \/ SearchParamsEffect
    \/ \E outcome \in {"messages", "no messages", "not ok", "rejected"} :
           HistorySettles(outcome)

Spec == Init /\ [][Next]_vars

---------------------------------------------------------------------------
(* One turn of an authenticated user, with every body of the wide set of   *)
(* units, read in pieces of every size.                                    *)

InitReceiver ==
    /\ Init
    /\ url = Null
    /\ token \in Tokens

NextReceiver ==
    \/ \E input \in Inputs : turnsLeft = MaxTurns /\ Send(input)
    \/ \E k \in 0..MaxFrames : \E body \in Bodies(Terminated, Unterminated, k) :
           RespondStream(Null, k, body)
    \/ \E n \in 1..(Len(wire) - pos) : Read(n)
    \/ HandleEvent
    \/ ReadFails
    \/ StreamEnd

SpecReceiver == InitReceiver /\ [][NextReceiver]_vars

---------------------------------------------------------------------------
(* What the claims speak of.                                               *)

\* the events of a read loop run over a sequence of events, up to the
\* first Error thrown
RECURSIVE RunEvents(_, _)
RunEvents(st, evs) ==
    IF evs = <<>> \/ st.thrown THEN st
    ELSE RunEvents(ProcessEvent(st.content, Head(evs)), Tail(evs))

\* the receiver run over the whole body delivered by one single read
OneRead(body) ==
    LET d == Decode(<<>>, body)
        pieces == Split(d.out, Delim)
        r == RunEvents(Start(<<>>), CompleteEvents(pieces))
    IN IF r.thrown THEN r ELSE ProcessRemaining(r.content, Retain(pieces))

\* the text received so far, and its pieces between the delimiters
Received == Decode(<<>>, SubSeq(wire, 1, pos)).out
Pieces == Split(Received, Delim)
AfterLastDelim == Pieces[Len(Pieces)]
Delimited == SubSeq(Pieces, 1, Len(Pieces) - 1)
\* the delimited events the loop has gone through
Handled == SubSeq(Delimited, 1, Len(Delimited) - Len(events))

InList(msgs, id) == \E i \in DOMAIN msgs : msgs[i].id = id
Drafts(msgs) == {i \in DOMAIN msgs : msgs[i].id = draftId}

\* an event as a frame: data: <payload>
IsFrame(event) == StartsWith(event, DataTag)
PayloadOf(event) == Slice(event, TagLen)
HasNewline(s) == \E i \in DOMAIN s : s[i] = NL
IsErrorPayload(payload) == StartsWith(payload, Sentinel)
SingleLineData(event) ==
    IsFrame(event) /\ ~HasNewline(event) /\ ~IsErrorPayload(PayloadOf(event))
MultiLineData(event) ==
    IsFrame(event) /\ HasNewline(event) /\ ~IsErrorPayload(PayloadOf(event))

ReadFailure == Err(Lit("network error"))

---------------------------------------------------------------------------
\* C1: whatever the sizes of the reads a body arrives in, the turn ends as
\* it ends when the whole body arrives in one read: completed with the same
\* content accumulated and shown in the draft, or errored on the same Error
\* frame, with the same error, after the same content.
C1_Reassembly ==
    LET one == OneRead(wire)
    IN /\ turnState = "Completed" =>
            /\ ~one.thrown
            /\ assistantContent = one.content
            /\ \A i \in Drafts(messages) : messages[i].content = one.content
       /\ (turnState = "Errored" /\ error # ReadFailure) =>
            /\ one.thrown
            /\ error = Err(one.err)
            /\ assistantContent = one.content

\* data: hello, read in pieces that split the frame, gives hello
C1_Witness ==
    /\ turnState = "Completed"
    /\ resumed
    /\ wire = Frame(Hello)
    /\ assistantContent = Hello
    /\ \E i \in Drafts(messages) : messages[i].content = Hello

\* C2, as claimed: at every point of the stream, stream end included, the
\* buffer holds the text received after the last delimiter, and the content
\* accumulated comes from the delimited events alone.
C2_RetainedAlways ==
    (pc \in {"read", "events"} \/ turnState = "Completed") =>
        /\ buffer = AfterLastDelim
        /\ assistantContent = RunEvents(Start(<<>>), Handled).content

\* C2, amended: the same at every point before the stream ends; when it
\* ends, the data lines of the remaining buffer are appended.
C2_RetainedUntilEnd ==
    /\ pc \in {"read", "events"} =>
        /\ buffer = AfterLastDelim
        /\ assistantContent = RunEvents(Start(<<>>), Handled).content
    /\ turnState = "Completed" =>
        /\ buffer = AfterLastDelim
        /\ assistantContent =
             ProcessRemaining(RunEvents(Start(<<>>), Delimited).content,
                              AfterLastDelim).content

\* a frame after hello has arrived without its delimiter: it is in the
\* buffer and not in the content
C2_Witness ==
    /\ pc = "read"
    /\ pos = Len(wire)
    /\ buffer = DataTag \o <<"h", "i">>
    /\ assistantContent = Hello

\* C3: handling a complete Data frame of one line sets the accumulated
\* content and the content of the draft to the previous content followed by
\* the payload as it is, and leaves the draft streaming.
C3_Verbatim ==
    [][ (pc = "events" /\ SingleLineData(Head(events))) =>
          LET payload == PayloadOf(Head(events))
          IN /\ \A i \in Drafts(messages) :
                    messages[i].content = assistantContent
             /\ assistantContent' = assistantContent \o payload
             /\ Drafts(messages') # {}
             /\ \A i \in Drafts(messages') :
                    /\ messages'[i].content = assistantContent \o payload
                    /\ messages'[i].isStreaming = True
             /\ turnState' = "Sending" ]_vars

\* two spaces, then " a ", are in the streaming draft as they came
C3_Witness ==
    /\ turnState = "Sending"
    /\ \E i \in Drafts(messages) :
          /\ messages[i].content = <<SP, SP, SP, "a", SP>>
          /\ messages[i].isStreaming = True

\* C4: handling a complete Data frame of several lines appends its whole
\* payload, newlines included.
C4_MultiLine ==
    [][ (pc = "events" /\ MultiLineData(Head(events))) =>
          assistantContent' = assistantContent \o PayloadOf(Head(events)) ]_vars

\* an event as an Error frame: data: [ERROR]...
ErrorFrame(event) == IsFrame(event) /\ IsErrorPayload(PayloadOf(event))
\* an Error frame of the shape data: [ERROR] <message>, and its message
MessageFrame(event) ==
    /\ StartsWith(event, DataTag \o Sentinel \o <<SP>>)
    /\ ~HasNewline(event)
MessageOf(event) == Slice(event, Len(DataTag) + Len(Sentinel) + 1)

\* the messages other than the one with this id, in their order
Others(msgs, id) == SelectSeq(msgs, LAMBDA m : m.id # id)

\* the payloads of the frames received, one after the other
FramePayloads ==
    Concat([i \in DOMAIN Delimited |->
              IF IsFrame(Delimited[i]) THEN PayloadOf(Delimited[i]) ELSE <<>>])

---------------------------------------------------------------------------
\* C5: handling an Error frame removes the draft of the turn from the list
\* and ends the turn Errored, and the id of a draft that has left the list
\* never shows in the list again.
C5_DraftDiscarded ==
    [][ /\ (pc = "events" /\ ErrorFrame(Head(events))) =>
              /\ ~InList(messages', draftId)
              /\ turnState' = "Errored"
        /\ \A n \in 1..clock :
              ~InList(messages, <<"assistant", n>>) =>
                  ~InList(messages', <<"assistant", n>>) ]_vars

\* hello came, then the Error frame: the user message is all that is left
C5_Witness ==
    /\ turnState = "Errored"
    /\ error = Err(<<"n", "o">>)
    /\ assistantContent = Hello
    /\ ~InList(messages, draftId)
    /\ Len(messages) = 1
    /\ messages[1].role = "user"

C7_HistoryKept ==
    [][ /\ (turnState # "Sending" /\ turnState' = "Sending") =>
              Others(messages', draftId') = messages \o
                  << Message(<<"user", clock'>>, "user", sentContent', Undefined) >>
        /\ turnState = "Sending" =>
              Others(messages', draftId) = Others(messages, draftId)
        /\ (turnState = "Sending" /\ turnState' = "Errored") =>
              ~InList(messages', draftId) ]_vars

\* the second turn has failed: the first turn's two messages and the second
\* user message are the list
C7_Witness ==
    /\ turnState = "Errored"
    /\ clock = 2
    /\ Len(messages) = 3
    /\ messages[1].id = <<"user", 1>>
    /\ messages[2].id = <<"assistant", 1>>
    /\ messages[2].isStreaming = False
    /\ messages[3] = Message(<<"user", 2>>, "user", <<"h", "i">>, Undefined)

\* C8: handling a frame ends the turn Errored exactly when its payload
\* starts with [ERROR], and a payload that starts with [ERROR] is not
\* appended.
C8_Classification ==
    [][ (pc = "events" /\ IsFrame(Head(events))) =>
          LET payload == PayloadOf(Head(events))
          IN /\ (turnState' = "Errored") <=> IsErrorPayload(payload)
             /\ IsErrorPayload(payload) =>
                    assistantContent' = assistantContent ]_vars

\* C9: when the stream has ended after whole frames, none of them an Error
\* frame, the turn is Completed with the draft in the list, not streaming,
\* its content the payloads of the frames one after the other.
C9_Completed ==
    (turnState = "Completed" /\ AfterLastDelim = <<>>) =>
        /\ assistantContent = FramePayloads
        /\ \E i \in Drafts(messages) :
              /\ messages[i].isStreaming = False
              /\ messages[i].content = FramePayloads

\* C10: a turn in flight keeps isLoading true, and while isLoading is true
\* no step starts a turn, sends a request or adds a message; a submission
\* made then is refused and changes nothing else.
C10_OneTurnInFlight ==
    [][ /\ pc # "idle" => isLoading
        /\ isLoading =>
              /\ requests' = requests
              /\ clock' = clock
              /\ Len(messages') <= Len(messages)
              /\ wire' # wire => pc = "fetch"
              /\ lastSubmit' # lastSubmit =>
                    /\ lastSubmit' \in {"busy", "empty"}
                    /\ UNCHANGED <<messages, pc, receiver, call, turnState>> ]_vars

\* a message was submitted while the stream of the turn was being read
C10_Witness ==
    /\ isLoading
    /\ pc = "read"
    /\ lastSubmit = "busy"
    /\ requests = 1
    /\ Len(messages) = 2

---------------------------------------------------------------------------
\* the draft of the turn is in the list, not streaming
Finalized == \E i \in Drafts(messages) : messages[i].isStreaming = False

\* C11: a turn goes Idle -> Sending -> Completed or Errored; Completed, the
\* draft is finalized and no error is shown; Errored, an error is shown and
\* the draft is not in the list; a finalized draft and an error are never
\* there together.
C11_TerminalStates ==
    /\ [][ /\ turnState' # turnState =>
                \/ turnState \in {"Idle", "Completed", "Errored"} /\ turnState' = "Sending"
                \/ turnState = "Sending" /\ turnState' \in {"Completed", "Errored"} ]_vars
    /\ [](turnState = "Completed" => Finalized /\ error = NoError)
    /\ [](turnState = "Errored" => error # NoError /\ ~InList(messages, draftId))
    /\ [](~(Finalized /\ error # NoError))

---------------------------------------------------------------------------
\* C12: the step a read fails with ends the turn Errored, takes the draft
\* out of the list whatever it has accumulated, leaves the other messages,
\* and finalizes nothing; the draft does not come back afterwards.
C12_AbortDiscards ==
    [][ /\ (pc = "read" /\ turnState' = "Errored") =>
              /\ messages' = Others(messages, draftId)
              /\ ~InList(messages', draftId)
              /\ \A i \in DOMAIN messages' :
                     messages'[i].isStreaming = False =>
                        \E j \in DOMAIN messages : messages[j] = messages'[i]
              /\ error' = ReadFailure
              /\ ~isLoading'
        /\ (turnState = "Errored" /\ error = ReadFailure) =>
              ~InList(messages', draftId) ]_vars

\* hello had been accumulated when the read failed: the user message is
\* all that is left
C12_Witness ==
    /\ turnState = "Errored"
    /\ error = ReadFailure
    /\ assistantContent = Hello
    /\ pos < Len(wire)
    /\ ~InList(messages, draftId)
    /\ Len(messages) = 1
    /\ messages[1].id = <<"user", 1>>

---------------------------------------------------------------------------
(* Progress of a turn.  The event loop runs the continuation of every      *)
(* promise that settles, and the network settles the promises of a turn:   *)
(* the fetch resolves or rejects, every read delivers bytes, reports done  *)
(* or rejects.                                                             *)

TurnStep ==
    \/ NotAuthenticated
    \/ \E reason \in ChatFailures : ChatRequestFails(reason)
    \/ \E header \in {Null} \cup ConvIds : RespondNoBody(header)
    \/ \E header \in {Null} \cup ConvIds : \E k \in 0..MaxFrames :
           \E body \in Bodies(ChatTerminated, ChatUnterminated, k) :
               RespondStream(header, k, body)
    \/ \E n \in 1..(Len(wire) - pos) : Read(n)
    \/ HandleEvent
    \/ ReadFails
    \/ StreamEnd

\* the turns of a conversation on a page opened without a conversation:
\* the submissions that are accepted, and the steps of the turns
InitLive == Init /\ url = Null

NextLive ==
    \/ \E input \in Inputs : Send(input)
    \/ TurnStep

SpecLive == InitLive /\ [][NextLive]_vars /\ WF_vars(TurnStep)

---------------------------------------------------------------------------
(* DocumentUpload and uploadDocument.  A file is its name; no file, the    *)
(* empty error and an absent or empty detail are the empty sequence.       *)

Dot == "."

\* c.toLowerCase(), over the letters of the model
LowerOf(c) ==
    CASE c = "P" -> "p" [] c = "D" -> "d" [] c = "F" -> "f"
      [] c = "T" -> "t" [] c = "X" -> "x" [] c = "M" -> "m"
      [] OTHER -> c

\* s.toLowerCase()
ToLowerCase(s) == [i \in DOMAIN s |-> LowerOf(s[i])]

\* s.lastIndexOf(c) + 1: where c last occurs in s, 0 when it does not
LastIndexOf(s, c) ==
    LET hits == {i \in DOMAIN s : s[i] = c}
    IN IF hits = {} THEN 0
       ELSE CHOOSE i \in hits : \A j \in hits : j <= i

\* s.substring(start), start given as it is in JavaScript (from 0, -1 for
\* lastIndexOf + 1 = 0): a negative start counts as 0
Substring(s, at) == IF at = 0 THEN s ELSE SubSeq(s, at, Len(s))

allowedTypes ==
    { <<Dot, "p", "d", "f">>, <<Dot, "t", "x", "t">>, <<Dot, "m", "d">>,
      <<Dot, "d", "o", "c", "x">> }

\* selectedFile.name.substring(selectedFile.name.lastIndexOf(".")).toLowerCase()
FileExtension(name) == ToLowerCase(Substring(name, LastIndexOf(name, Dot)))

Unsupported == Lit("Unsupported file type. Allowed types: .pdf, .txt, .md, .docx")

\* the files the user may select or drop
FileNames ==
    { <<"a", Dot, "p", "d", "f">>,
      <<"a", Dot, "P", "D", "F">>,
      <<"a", Dot, "b", Dot, "t", "x", "t">>,
      <<Dot, "m", "d">>,
      <<"a", Dot, "e", "x", "e">>,
      <<"a", Dot, "p", "d", "f", Dot, "e", "x", "e">>,
      <<"p", "d", "f">> }

\* the file set before its type is looked at
ValidateAndSetFileSetsFirst(selectedFile) ==
    /\ picked' = selectedFile
    /\ file' = selectedFile
    /\ uploadError' = IF FileExtension(selectedFile) \notin allowedTypes
                      THEN Unsupported ELSE <<>>

ValidateAndSetFile(selectedFile) ==
    /\ picked' = selectedFile
    /\ IF FileExtension(selectedFile) \notin allowedTypes
       THEN /\ uploadError' = Unsupported
            /\ UNCHANGED file
       ELSE /\ file' = selectedFile
            /\ uploadError' = <<>>

\* the user picks a file in the file dialog
HandleFileChange(selectedFile) ==
    /\ ValidateAndSetFile(selectedFile)
    /\ UNCHANGED <<uploading, progress, uploadPc, uploadArg, uploaded,
                   answer, completed, uploadsLeft, chat, token, session, calls, store, rest>>

\* the user drops a file on the drop zone
HandleDrop(droppedFile) ==
    /\ ValidateAndSetFile(droppedFile)
    /\ UNCHANGED <<uploading, progress, uploadPc, uploadArg, uploaded,
                   answer, completed, uploadsLeft, chat, token, session, calls, store, rest>>

ClearFile ==
    /\ file # <<>>
    /\ file' = <<>>
    /\ uploadError' = <<>>
    /\ UNCHANGED <<uploading, progress, uploadPc, uploadArg, uploaded,
                   answer, completed, picked, uploadsLeft, chat, token, session, calls, store, rest>>

---------------------------------------------------------------------------
(* uploadDocument: the answers of the server and what the promise settles  *)
(* with.                                                                   *)

OK == 200
\* a request not yet answered: status 0, no response text
NoAnswer == [status |-> 0, body |-> [kind |-> "none", detail |-> <<>>]]
Statuses == {OK, 201, 500}

StatusText(status) ==
    CASE status = OK -> "OK" [] status = 201 -> "Created"
      [] OTHER -> "Internal Server Error"

\* xhr.responseText: JSON of an object (with its detail, empty when there
\* is none), the JSON null, or text that is no JSON
ResponseTexts ==
    { [kind |-> "json", detail |-> <<>>],
      [kind |-> "json", detail |-> Lit("File too large")],
      [kind |-> "null", detail |-> <<>>],
      [kind |-> "text", detail |-> <<>>] }

Resolved(value) == [ok |-> TRUE, value |-> value]
Rejected(reason) == [ok |-> FALSE, value |-> reason]

\* every parseable answer taken for a success, whatever its status
XhrOnloadAnyStatus(status, body) ==
    IF body.kind # "text" THEN Resolved(body)
    ELSE Rejected(Lit("Failed to parse response"))

\* xhr.onload
XhrOnload(status, body) ==
    IF status = OK
    THEN IF body.kind # "text" THEN Resolved(body)
         ELSE Rejected(Lit("Failed to parse response"))
    ELSE IF body.kind = "json"
         THEN Rejected(IF body.detail # <<>> THEN body.detail
                       ELSE Lit("Upload failed"))
         ELSE Rejected(<<"Upload failed: ", StatusText(status)>>)

\* xhr.onerror
XhrOnerror == Rejected(Lit("Upload failed. Please try again."))

---------------------------------------------------------------------------
(* handleUpload.                                                           *)

\* the button is there when a file is selected, and disabled while
\* uploading; if (!file) return
HandleUpload ==
    /\ file # <<>>
    /\ ~uploading
    /\ uploadsLeft > 0
    /\ uploadsLeft' = uploadsLeft - 1
    /\ uploading' = TRUE
    /\ progress' = 0
    /\ uploadError' = <<>>
    /\ uploadArg' = file
    /\ IF token = Null
       THEN /\ uploadPc' = "rejected"
            /\ UNCHANGED uploaded
       ELSE /\ uploadPc' = "xhr"
            /\ uploaded' = uploaded \cup {file}
    /\ answer' = NoAnswer
    /\ UNCHANGED <<file, completed, picked, chat, token, session, calls, store, rest>>

\* xhr.upload "progress" with lengthComputable
UploadProgress(percentComplete) ==
    /\ uploadPc = "xhr"
    /\ progress' = percentComplete
    /\ UNCHANGED <<file, uploading, uploadError, uploadPc, uploadArg,
                   uploaded, answer, completed, picked, uploadsLeft, chat,
                   token, session, calls, store, rest>>

\* the rest of handleUpload once uploadDocument has settled: the
\* continuation of the await, or catch, then finally
Settled(outcome) ==
    /\ IF outcome.ok
       THEN /\ file' = <<>>
            /\ progress' = 0
            /\ completed' = Append(completed, outcome.value)
            /\ UNCHANGED uploadError
       ELSE /\ uploadError' = outcome.value
            /\ UNCHANGED <<file, progress, completed>>
    /\ uploading' = FALSE
    /\ uploadPc' = "idle"

\* uploadDocument found no token
UploadNotAuthenticated ==
    /\ uploadPc = "rejected"
    /\ Settled(Rejected(Lit("Not authenticated")))
    /\ UNCHANGED <<uploadArg, uploaded, answer, picked, uploadsLeft, chat,
                   token, session, calls, store, rest>>

UploadAnswered(status, body) ==
    /\ uploadPc = "xhr"
    /\ Settled(XhrOnload(status, body))
    /\ answer' = [status |-> status, body |-> body]
    /\ UNCHANGED <<uploadArg, uploaded, picked, uploadsLeft, chat, token, session, calls, store, rest>>

UploadFailsToSend ==
    /\ uploadPc = "xhr"
    /\ Settled(XhrOnerror)
    /\ UNCHANGED <<uploadArg, uploaded, answer, picked, uploadsLeft, chat,
                   token, session, calls, store, rest>>

InitUpload == Init /\ url = Null

NextUpload ==
    \/ \E selectedFile \in FileNames : HandleFileChange(selectedFile)
    \/ \E droppedFile \in FileNames : HandleDrop(droppedFile)
    \/ ClearFile
    \/ HandleUpload
    \/ \E percentComplete \in {50} : UploadProgress(percentComplete)
    \/ UploadNotAuthenticated
    \/ \E status \in Statuses : \E body \in ResponseTexts :
           UploadAnswered(status, body)
    \/ UploadFailsToSend

SpecUpload == InitUpload /\ [][NextUpload]_vars

---------------------------------------------------------------------------
\* a name that ends, whatever the case of its letters, with one of the
\* allowed types: its text from its last "." is that type
AllowedName(name) ==
    \E t \in allowedTypes :
        /\ Len(name) >= Len(t)
        /\ ToLowerCase(SubSeq(name, Len(name) - Len(t) + 1, Len(name))) = t

\* C14: the selected file, the file of a running upload and every file a
\* request was sent for have an allowed extension; selecting or dropping a
\* file of another extension sets the Unsupported file type error and
\* leaves the selected file as it was.
C14_OnlyAllowed ==
    /\ [](file # <<>> => AllowedName(file))
    /\ [](uploadArg # <<>> => AllowedName(uploadArg))
    /\ [](\A f \in uploaded : AllowedName(f))
    /\ [][ (picked' # picked /\ ~AllowedName(picked')) =>
              /\ file' = file
              /\ uploadError' = Unsupported
              /\ UNCHANGED <<uploadPc, uploadArg, uploaded>> ]_vars

\* a.exe was dropped while a.pdf was being uploaded: a.pdf is still the
\* selected file, and the error is shown
C14_Witness ==
    /\ picked = <<"a", Dot, "e", "x", "e">>
    /\ file = <<"a", Dot, "p", "d", "f">>
    /\ uploadError = Unsupported
    /\ uploadPc = "xhr"
    /\ uploadArg = file

---------------------------------------------------------------------------
(* The turns of a conversation with a server that may answer with any      *)
(* conversation id, the one the client holds or another.                   *)

ResponseHeaders == {Null, "c1", "c2"}

NextConversation ==
    \/ \E input \in Inputs : Send(input)
    \/ NotAuthenticated
    \/ \E reason \in ChatFailures : ChatRequestFails(reason)
    \/ \E header \in ResponseHeaders : RespondNoBody(header)
    \/ \E header \in ResponseHeaders : \E k \in 0..1 :
           \E body \in Bodies(ChatTerminated, ChatUnterminated, k) :
               RespondStream(header, k, body)
    \/ \E n \in 1..(Len(wire) - pos) : Read(n)
    \/ HandleEvent
    \/ ReadFails
    \/ StreamEnd
    \/ SearchParamsEffect
    \/ \E outcome \in {"messages", "no messages", "not ok", "rejected"} :
           HistorySettles(outcome)

SpecConversation == Init /\ [][NextConversation]_vars

\* C15: the request of a turn carries the id held when it is sent, null
\* when none is held; the id held changes only when a response arrives
\* while none is held, never while the body is read; and an id once held
\* is never replaced.
C15_ConversationId ==
    [][ /\ requests' # requests =>
              /\ sentConv' = conversationId
              /\ conversationId' = conversationId
        /\ conversationId' # conversationId =>
              /\ conversationId = Null
              /\ pc = "fetch"
              /\ closureConv = Null
        /\ pc \in {"read", "events"} => conversationId' = conversationId ]_vars

\* c1 was adopted in the first turn; the second turn was sent with c1,
\* its response has arrived, and c1 is still held
C15_Witness ==
    /\ clock = 2
    /\ sentConv = "c1"
    /\ url = "c1"
    /\ conversationId = "c1"
    /\ pc = "read"
    /\ messages[1].id = <<"user", 1>>
    /\ messages[2].id = <<"assistant", 1>>

---------------------------------------------------------------------------
\* what uploadDocument settles with for an answer of the server, as the
\* claim has it: resolved for status 200 with a body that parses, rejected
\* with the detail of the server or a fallback reason otherwise
Fallbacks ==
    { Lit("Failed to parse response"), Lit("Upload failed"),
      Lit("Upload failed. Please try again."), Lit("Not authenticated") }
    \cup { <<"Upload failed: ", StatusText(status)>> : status \in Statuses }

\* C16: the step an upload settles with calls onUploadComplete, once, with
\* the body and clears the selected file exactly when the server has
\* answered status 200 with a body that parses; on every other outcome it
\* sets the error (to the detail of the server when the answer has one, to
\* a fallback reason otherwise), keeps the selected file and calls
\* nothing; and onUploadComplete is called at no other step.
C16_UploadOutcome ==
    [][ /\ (uploadPc # "idle" /\ uploadPc' = "idle") =>
              /\ ~uploading'
              /\ IF /\ uploadPc = "xhr"
                    /\ answer'.status = OK
                    /\ answer'.body.kind \in {"json", "null"}
                 THEN /\ completed' = Append(completed, answer'.body)
                      /\ file' = <<>>
                      /\ uploadError' = uploadError
                 ELSE /\ completed' = completed
                      /\ file' = file
                      /\ uploadError' # <<>>
                      /\ IF answer'.body.detail # <<>>
                         THEN uploadError' = answer'.body.detail
                         ELSE uploadError' \in Fallbacks
        /\ completed' # completed => (uploadPc = "xhr" /\ uploadPc' = "idle") ]_vars

\* the upload of a.pdf was answered 500 with a detail: the detail is
\* shown, a.pdf is still selected and nothing was completed
C16_Witness ==
    /\ uploadPc = "idle"
    /\ uploaded = {<<"a", Dot, "p", "d", "f">>}
    /\ file = <<"a", Dot, "p", "d", "f">>
    /\ uploadError = Lit("File too large")
    /\ answer.status = 500
    /\ completed = <<>>
    /\ ~uploading

---------------------------------------------------------------------------
(* api.ts: the requests of its functions.  A request is the URL handed to  *)
(* fetch or to XMLHttpRequest and the token of its Authorization header,   *)
(* null when it has no such header.                                        *)

Request(u, bearer) == [url |-> u, authorization |-> bearer]

\* authenticatedFetch(endpoint): the header is set if (token)
AuthenticatedFetch(endpoint, stored) ==
    Request(AuthenticatedFetchUrl(endpoint), stored)

NotAuthenticatedError == Lit("Not authenticated")

\* what a call does before its first await: the requests it hands over,
\* and the Error it throws
Called(requests_, thrown) == [requests |-> requests_, thrown |-> thrown]

\* sendChatMessage, uploadDocument: if (!token) throw
GuardedRequest(u, stored) ==
    IF stored = Null THEN Called({}, NotAuthenticatedError)
    ELSE Called({Request(u, stored)}, <<>>)

ApiFunctions ==
    { "sendChatMessage", "getChatHistory", "deleteConversation",
      "uploadDocument", "getDocuments", "deleteDocument" }

ApiCall(fn, stored) ==
    CASE fn = "sendChatMessage" ->
           GuardedRequest(<<API_BASE_URL, "/api/chat/">>, stored)
      [] fn = "uploadDocument" ->
           GuardedRequest(<<API_BASE_URL, "/api/documents/upload">>, stored)
      [] fn = "getChatHistory" ->
           Called({Request(GetChatHistoryUrl("c1"), stored)}, <<>>)
      [] fn = "deleteConversation" ->
           Called({AuthenticatedFetch(<<"/api/chat/conversation/", "c1">>, stored)}, <<>>)
      [] fn = "getDocuments" ->
           Called({AuthenticatedFetch(<<"/api/documents/">>, stored)}, <<>>)
      [] OTHER ->
           Called({AuthenticatedFetch(<<"/api/documents/", "d1">>, stored)}, <<>>)

\* a component calls a function of api.ts
Call(fn) ==
    /\ callsLeft > 0
    /\ callsLeft' = callsLeft - 1
    /\ LET c == ApiCall(fn, token)
       IN /\ sent' = sent \cup c.requests
          /\ lastCall' = <<fn, c>>
    /\ UNCHANGED <<store, rest, chat, documentUpload, session, token>>

---------------------------------------------------------------------------
(* AuthProvider, api.logout and ProtectedRoute.                            *)

\* children shown whether or not there is a user
RenderWithoutAuthCheck(isLoading_, user_) ==
    IF isLoading_ THEN "loading" ELSE "children"

\* ProtectedRoute: what it returns for loading and isAuthenticated = !!user
Render(isLoading_, user_) ==
    IF isLoading_ THEN "loading"
    ELSE IF user_ = Null THEN "nothing"
    ELSE "children"

\* the render that follows a change of the state of AuthProvider, and the
\* effect of ProtectedRoute scheduled when one of its dependencies changed
Rerender ==
    /\ rendered' = Render(loading', user')
    /\ routeEffect' = (routeEffect \/ loading' # loading
                                   \/ (user' = Null) # (user = Null))

LogoutRequest(stored) == AuthenticatedFetch(<<"/api/auth/logout">>, stored)

\* checkAuth up to its first await
CheckAuth ==
    /\ authPc = "mount"
    /\ IF token # Null
       THEN /\ authPc' = "me"
            /\ sent' = sent \cup {AuthenticatedFetch(<<"/api/auth/me">>, token)}
            /\ UNCHANGED <<user, loading, rendered, routeEffect>>
       ELSE /\ authPc' = "done"
            /\ loading' = FALSE
            /\ UNCHANGED <<user, sent>>
            /\ Rerender
    /\ UNCHANGED <<store, rest, chat, documentUpload, token, logouts, route, lastCall,
                   callsLeft>>

\* getCurrentUser settles, and checkAuth runs to its end
GetCurrentUserSettles(outcome) ==
    /\ authPc = "me"
    /\ authPc' = "done"
    /\ loading' = FALSE
    /\ IF outcome = "ok"
       THEN /\ user' = "u1"
            /\ UNCHANGED <<token, logouts, sent>>
       ELSE /\ token' = IF outcome = "401" THEN Null ELSE token
            /\ logouts' = Append(logouts, "checkAuth")
            /\ sent' = sent \cup {LogoutRequest(token')}
            /\ user' = Null
    /\ Rerender
    /\ UNCHANGED <<store, rest, chat, documentUpload, route, lastCall, callsLeft>>

\* handleLogout up to the await of api.logout
HandleLogout ==
    /\ user # Null
    /\ Len(logouts) < MaxLogouts
    /\ logouts' = Append(logouts, "handleLogout")
    /\ sent' = sent \cup {LogoutRequest(token)}
    /\ UNCHANGED <<store, rest, chat, documentUpload, token, user, loading, authPc, route,
                   rendered, routeEffect, lastCall, callsLeft>>

\* the sequence without its i-th element
Without(q, i) == SubSeq(q, 1, i - 1) \o SubSeq(q, i + 1, Len(q))

\* the token removed only when the request has been made
LogoutSettlesKeepsTokenOnReject(i, outcome) ==
    /\ i \in DOMAIN logouts
    /\ logouts' = Without(logouts, i)
    /\ token' = IF outcome = "rejected" THEN token ELSE Null
    /\ IF logouts[i] = "handleLogout" /\ outcome # "rejected"
       THEN /\ user' = Null
            /\ route' = "/login"
       ELSE UNCHANGED <<user, route>>
    /\ UNCHANGED <<loading, authPc>>
    /\ Rerender
    /\ UNCHANGED <<store, rest, chat, documentUpload, calls>>

\* the request of an api.logout call settles: finally removeToken(), then
\* the rest of handleLogout unless the request was rejected
LogoutSettles(i, outcome) ==
    /\ i \in DOMAIN logouts
    /\ logouts' = Without(logouts, i)
    /\ token' = Null
    /\ IF logouts[i] = "handleLogout" /\ outcome # "rejected"
       THEN /\ user' = Null
            /\ route' = "/login"
       ELSE UNCHANGED <<user, route>>
    /\ UNCHANGED <<loading, authPc>>
    /\ Rerender
    /\ UNCHANGED <<store, rest, chat, documentUpload, calls>>

\* useEffect of ProtectedRoute
ProtectedRouteEffect ==
    /\ routeEffect
    /\ routeEffect' = FALSE
    /\ route' = IF ~loading /\ user = Null THEN "/login" ELSE route
    /\ UNCHANGED <<store, rest, chat, documentUpload, token, user, loading, authPc,
                   logouts, rendered, calls>>

InitSession == Init /\ url = Null

NextSession ==
    \/ CheckAuth
    \/ \E outcome \in {"ok", "401", "not ok", "rejected"} :
           GetCurrentUserSettles(outcome)
    \/ HandleLogout
    \/ \E i \in 1..MaxLogouts : \E outcome \in {"ok", "not ok", "rejected"} :
           LogoutSettles(i, outcome)
    \/ ProtectedRouteEffect
    \/ \E fn \in ApiFunctions : Call(fn)

SpecSession == InitSession /\ [][NextSession]_vars

---------------------------------------------------------------------------
\* C17: ProtectedRoute shows its children only when loading is false and
\* there is a user; while loading is true it shows the loading
\* placeholder; when loading is false and there is no user it shows
\* nothing, and its effect is scheduled or the router is on /login.
C17_ProtectedRoute ==
    /\ rendered = "children" => (~loading /\ user # Null)
    /\ loading => rendered = "loading"
    /\ (~loading /\ user = Null) =>
          /\ rendered = "nothing"
          /\ routeEffect \/ route = "/login"

\* the token was refused with 401: nothing is shown and the router is on
\* /login
C17_Witness ==
    /\ authPc = "done"
    /\ ~loading
    /\ user = Null
    /\ token = Null
    /\ rendered = "nothing"
    /\ ~routeEffect
    /\ route = "/login"
    /\ logouts = <<"checkAuth">>

\* C18: the step an api.logout call settles with, resolved or rejected,
\* leaves no token stored.
C18_LogoutRemovesToken ==
    [][ Len(logouts') < Len(logouts) => token' = Null ]_vars

\* the request of handleLogout was rejected: the token is gone, and the
\* user is still set
C18_Witness ==
    /\ logouts = <<>>
    /\ token = Null
    /\ user = "u1"
    /\ route = "/chat"
    /\ \E r \in sent : r = LogoutRequest("t1")

---------------------------------------------------------------------------
\* C19: a call of a chat or documents function made while a token is
\* stored hands over requests that carry the token; made while none is
\* stored it hands over no request and throws Not authenticated.
C19_BearerOnEveryRequest ==
    [][ callsLeft' # callsLeft =>
          LET c == lastCall'[2]
          IN IF token = Null
             THEN c.requests = {} /\ c.thrown = NotAuthenticatedError
             ELSE /\ c.requests # {}
                  /\ \A r \in c.requests : r.authorization = token ]_vars

---------------------------------------------------------------------------
(* IngestionPipeline: extraction and chunking, the embedding of each chunk *)
(* with bounded retries, then the write of the Document, its Chunks and    *)
(* their VectorIndexEntries as one unit.  What an ingestion has written is *)
(* staged, and becomes observable when the unit commits.                   *)

DocumentIds == {"d1", "d2"}

Ordinals(n) == {c \in 0..MaxChunks : c < n}

\* what the unit of a document of n chunks writes
Items(n) ==
    {<<"document">>} \cup {<<"chunk", c>> : c \in Ordinals(n)}
                    \cup {<<"entry", c>> : c \in Ordinals(n)}

ChunksIn(d, items) ==
    {<<d, c>> : c \in {k \in 0..MaxChunks : <<"chunk", k>> \in items}}
EntriesIn(d, items) ==
    {<<d, c>> : c \in {k \in 0..MaxChunks : <<"entry", k>> \in items}}

\* ingest: the text is extracted and chunked into n chunks
StartIngest(d, n) ==
    /\ ingest[d].pc = "idle"
    /\ ingest' = [ingest EXCEPT ![d].pc = "embedding", ![d].n = n]
    /\ UNCHANGED <<documents, chunks, entries>>
    /\ UNCHANGED <<chat, token, documentUpload, session, calls, rest>>

\* extraction fails: UnsupportedFormat or ExtractionFailure
ExtractionFails(d) ==
    /\ ingest[d].pc = "idle"
    /\ ingest' = [ingest EXCEPT ![d].pc = "failed"]
    /\ UNCHANGED <<documents, chunks, entries>>
    /\ UNCHANGED <<chat, token, documentUpload, session, calls, rest>>

\* EmbeddingGateway returns the vector of chunk c
EmbedSucceeds(d, c) ==
    /\ ingest[d].pc = "embedding"
    /\ c \in Ordinals(ingest[d].n) \ ingest[d].embedded
    /\ ingest' = [ingest EXCEPT ![d].embedded = @ \cup {c}, ![d].attempts = 0]
    /\ UNCHANGED <<documents, chunks, entries>>
    /\ UNCHANGED <<chat, token, documentUpload, session, calls, rest>>

\* a transient ProviderError or a ProviderTimeout: retried up to the cap,
\* then the failure is permanent and the ingestion is aborted
EmbedFailsTransient(d) ==
    /\ ingest[d].pc = "embedding"
    /\ Ordinals(ingest[d].n) \ ingest[d].embedded # {}
    /\ ingest' = IF ingest[d].attempts < MaxRetries
                 THEN [ingest EXCEPT ![d].attempts = @ + 1]
                 ELSE [ingest EXCEPT ![d].pc = "failed", ![d].staged = {}]
    /\ UNCHANGED <<documents, chunks, entries>>
    /\ UNCHANGED <<chat, token, documentUpload, session, calls, rest>>

\* a ProviderError that is not retryable
EmbedFailsPermanent(d) ==
    /\ ingest[d].pc = "embedding"
    /\ Ordinals(ingest[d].n) \ ingest[d].embedded # {}
    /\ ingest' = [ingest EXCEPT ![d].pc = "failed", ![d].staged = {}]
    /\ UNCHANGED <<documents, chunks, entries>>
    /\ UNCHANGED <<chat, token, documentUpload, session, calls, rest>>

\* every chunk is embedded: the unit of writes begins
BeginWrite(d) ==
    /\ ingest[d].pc = "embedding"
    /\ ingest[d].embedded = Ordinals(ingest[d].n)
    /\ ingest' = [ingest EXCEPT ![d].pc = "writing"]
    /\ UNCHANGED <<documents, chunks, entries>>
    /\ UNCHANGED <<chat, token, documentUpload, session, calls, rest>>

\* one write of the unit
Write(d, item) ==
    /\ ingest[d].pc = "writing"
    /\ item \in Items(ingest[d].n) \ ingest[d].staged
    /\ ingest' = [ingest EXCEPT ![d].staged = @ \cup {item}]
    /\ UNCHANGED <<documents, chunks, entries>>
    /\ UNCHANGED <<chat, token, documentUpload, session, calls, rest>>

\* what was written before the failure left observable
WriteFailsKeepsWritten(d) ==
    /\ ingest[d].pc = "writing"
    /\ ingest' = [ingest EXCEPT ![d].pc = "failed", ![d].staged = {}]
    /\ documents' = IF <<"document">> \in ingest[d].staged
                    THEN documents \cup {d} ELSE documents
    /\ chunks' = chunks \cup ChunksIn(d, ingest[d].staged)
    /\ entries' = entries \cup EntriesIn(d, ingest[d].staged)
    /\ UNCHANGED <<chat, token, documentUpload, session, calls, rest>>

\* IndexWriteFailure, or a failed write of the Document or of a Chunk: the
\* unit is rolled back
WriteFails(d) ==
    /\ ingest[d].pc = "writing"
    /\ ingest' = [ingest EXCEPT ![d].pc = "failed", ![d].staged = {}]
    /\ UNCHANGED <<documents, chunks, entries>>
    /\ UNCHANGED <<chat, token, documentUpload, session, calls, rest>>

\* the unit commits: all it wrote becomes observable at once
Commit(d) ==
    /\ ingest[d].pc = "writing"
    /\ ingest[d].staged = Items(ingest[d].n)
    /\ ingest' = [ingest EXCEPT ![d].pc = "done", ![d].staged = {}]
    /\ documents' = documents \cup {d}
    /\ chunks' = chunks \cup ChunksIn(d, ingest[d].staged)
    /\ entries' = entries \cup EntriesIn(d, ingest[d].staged)
    /\ UNCHANGED <<chat, token, documentUpload, session, calls, rest>>

InitIngestion == Init /\ url = Null /\ token \in Tokens

NextIngestion ==
    \/ \E d \in DocumentIds : \E n \in 0..MaxChunks : StartIngest(d, n)
    \/ \E d \in DocumentIds : ExtractionFails(d)
    \/ \E d \in DocumentIds : \E c \in 0..MaxChunks : EmbedSucceeds(d, c)
    \/ \E d \in DocumentIds : EmbedFailsTransient(d)
    \/ \E d \in DocumentIds : EmbedFailsPermanent(d)
    \/ \E d \in DocumentIds : BeginWrite(d)
    \/ \E d \in DocumentIds : \E item \in Items(MaxChunks) : Write(d, item)
    \/ \E d \in DocumentIds : WriteFails(d)
    \/ \E d \in DocumentIds : Commit(d)

SpecIngestion == InitIngestion /\ [][NextIngestion]_vars

\* C20: the observable index has one entry per observable chunk; a
\* document that is not observable has no observable chunk or entry, a
\* document that is has all of its own; and after a failed ingestion
\* nothing of the document is observable.
C20_AtomicIngestion ==
    /\ Cardinality(entries) = Cardinality(chunks)
    /\ entries = chunks
    /\ \A d \in DocumentIds :
          /\ d \notin documents =>
                \A c \in 0..MaxChunks : <<d, c>> \notin chunks \cup entries
          /\ d \in documents =>
                /\ ingest[d].pc = "done"
                /\ {c \in 0..MaxChunks : <<d, c>> \in chunks} = Ordinals(ingest[d].n)
          /\ ingest[d].pc = "failed" =>
                /\ d \notin documents
                /\ \A c \in 0..MaxChunks : <<d, c>> \notin chunks \cup entries

\* the index write of d1 failed after its document and a chunk had been
\* written, while d2 was ingested with two chunks: d2 alone is observable
C20_Witness ==
    /\ ingest["d1"].pc = "failed"
    /\ ingest["d1"].n = 2
    /\ ingest["d1"].embedded = {0, 1}
    /\ ingest["d2"].pc = "done"
    /\ documents = {"d2"}
    /\ chunks = {<<"d2", 0>>, <<"d2", 1>>}
    /\ entries = chunks

---------------------------------------------------------------------------
(* ConversationStateManager: append assigns the next sequence number of    *)
(* the conversation and persists the message (table chat_messages); the    *)
(* appends of one conversation are serialized, one writer at a time.       *)

ConversationIds == {"c1", "c2"}
Appenders == {"a1", "a2"}
Roles == {"user", "assistant"}

\* the next sequence number of a conversation
NextSequenceNumber(history) ==
    IF history = <<>> THEN 1 ELSE history[Len(history)].sequenceNumber + 1

\* history(conversationId): the messages by sequenceNumber ascending
SequenceNumbers(c) == [i \in 1..Len(log[c]) |-> log[c][i].sequenceNumber]

\* append(conversationId, role, content) is called
IssueAppend(a, c, role) ==
    /\ appendsLeft > 0
    /\ appends[a].pc = "idle"
    /\ appends' = [appends EXCEPT ![a] = [pc |-> "issued", conv |-> c,
                                          role |-> role, next |-> 0]]
    /\ appendsLeft' = appendsLeft - 1
    /\ UNCHANGED <<log, writer>>
    /\ UNCHANGED outsideManager

\* the append becomes the writer of its conversation whoever holds it
BecomeWriterUnserialized(a) ==
    /\ appends[a].pc = "issued"
    /\ writer' = [writer EXCEPT ![appends[a].conv] = a]
    /\ appends' = [appends EXCEPT ![a].pc = "writer"]
    /\ UNCHANGED <<log, appendsLeft>>
    /\ UNCHANGED outsideManager

\* the append becomes the writer of its conversation once no other is
BecomeWriter(a) ==
    /\ appends[a].pc = "issued"
    /\ writer[appends[a].conv] = Null
    /\ writer' = [writer EXCEPT ![appends[a].conv] = a]
    /\ appends' = [appends EXCEPT ![a].pc = "writer"]
    /\ UNCHANGED <<log, appendsLeft>>
    /\ UNCHANGED outsideManager

\* the writer takes the next sequence number
AssignSequenceNumber(a) ==
    /\ appends[a].pc = "writer"
    /\ appends' = [appends EXCEPT
                     ![a].pc = "assigned",
                     ![a].next = NextSequenceNumber(log[appends[a].conv])]
    /\ UNCHANGED <<log, writer, appendsLeft>>
    /\ UNCHANGED outsideManager

\* the writer persists the message and hands the conversation over
Persist(a) ==
    /\ appends[a].pc = "assigned"
    /\ log' = [log EXCEPT ![appends[a].conv] =
                 Append(@, [role |-> appends[a].role,
                            sequenceNumber |-> appends[a].next,
                            by |-> a])]
    /\ writer' = [writer EXCEPT ![appends[a].conv] = Null]
    /\ appends' = [appends EXCEPT ![a].pc = "idle"]
    /\ UNCHANGED appendsLeft
    /\ UNCHANGED outsideManager

InitManager == Init /\ url = Null /\ token \in Tokens

NextManager ==
    \/ \E a \in Appenders : \E c \in ConversationIds : \E role \in Roles :
          IssueAppend(a, c, role)
    \/ \E a \in Appenders : BecomeWriter(a)
    \/ \E a \in Appenders : AssignSequenceNumber(a)
    \/ \E a \in Appenders : Persist(a)

SpecManager == InitManager /\ [][NextManager]_vars

---------------------------------------------------------------------------
(* The first turn of a new conversation: the response brings the id, the   *)
(* router is pushed to it, and the searchParams effect and the history     *)
(* load it starts run while the body is read.                              *)

StreamTerminated == { Frame(Hello), Frame(<<"a", NL, "b">>) }

InitStreaming == Init /\ url = Null /\ token \in Tokens

NextStreaming ==
    \/ \E input \in Inputs : turnsLeft = MaxTurns /\ Send(input)
    \/ \E k \in 1..MaxFrames : \E body \in Bodies(StreamTerminated, {}, k) :
           RespondStream("c1", k, body)
    \/ \E n \in 1..(Len(wire) - pos) : Read(n)
    \/ HandleEvent
    \/ ReadFails
    \/ StreamEnd
    \/ SearchParamsEffect
    \/ \E outcome \in {"messages", "no messages", "not ok", "rejected"} :
           HistorySettles(outcome)

SpecStreaming == InitStreaming /\ [][NextStreaming]_vars

\* the payloads of the Data frames the loop has gone through
HandledPayloads ==
    Concat([i \in DOMAIN Handled |->
              IF IsFrame(Handled[i]) /\ ~IsErrorPayload(PayloadOf(Handled[i]))
              THEN PayloadOf(Handled[i]) ELSE <<>>])

\* C22: while the body of a turn is read, the draft of the turn is in the
\* list and its content is the payloads of the Data frames received so
\* far, one after the other, whatever the searchParams effect and the
\* history load have done in between.
C22_DraftFollowsStream ==
    (turnState = "Sending" /\ pc \in {"read", "events"}) =>
        \E i \in Drafts(messages) : messages[i].content = HandledPayloads

---------------------------------------------------------------------------
\* the turn of a message, from its id
TurnOf(m) == m.id[2]

\* C23: a turn starts by appending two messages at the end of the list as
\* it was, the user message and then its empty assistant draft; while the
\* turn is in flight the messages before the draft stay as they are, in
\* their order, and nothing comes after the draft; and in every state each
\* assistant message directly follows the user message of its turn.
C23_OrderingKept ==
    /\ [][ /\ clock' # clock =>
                messages' = messages \o
                   << Message(<<"user", clock'>>, "user", sentContent', Undefined),
                      Message(<<"assistant", clock'>>, "assistant", <<>>, True) >>
           /\ turnState = "Sending" =>
                \E n \in {Len(messages) - 1} :
                   /\ n >= 1
                   /\ messages[n + 1].id = draftId
                   /\ SubSeq(messages', 1, n) = SubSeq(messages, 1, n)
                   /\ Len(messages') \in {n, n + 1}
                   /\ Len(messages') = n + 1 => messages'[n + 1].id = draftId ]_vars
    /\ [](\A i \in DOMAIN messages :
             messages[i].role = "assistant" =>
                /\ i > 1
                /\ messages[i - 1].role = "user"
                /\ TurnOf(messages[i - 1]) = TurnOf(messages[i]))

\* the second turn is streaming after the first was completed: the first
\* reply still follows its user message, unchanged
C23_Witness ==
    /\ turnState = "Sending"
    /\ clock = 2
    /\ Len(messages) = 4
    /\ messages[2] = Message(<<"assistant", 1>>, "assistant", Hello, False)
    /\ messages[3].id = <<"user", 2>>
    /\ messages[4] = Message(<<"assistant", 2>>, "assistant", <<SP, SP>>, True)

---------------------------------------------------------------------------
(* DocumentList: the documents fetched on mount, and handleDelete.         *)

ListIds == {"d1", "d2", "d3"}

Shown(docs, d) == \E i \in DOMAIN docs : docs[i] = d

\* documents.filter((doc) => doc.id !== documentId)
WithoutDocument(docs, d) == SelectSeq(docs, LAMBDA x : x # d)

\* the list is rendered with its delete buttons: not loading, no error
ListRendered == ~listLoading /\ listError = <<>>

\* getDocuments of the mount effect settles
FetchDocumentsSettles(outcome) ==
    /\ listPc = "fetching"
    /\ listPc' = "done"
    /\ IF outcome = "ok"
       THEN /\ listed' = served
            /\ UNCHANGED listError
       ELSE /\ listError' = Lit("Failed to get documents")
            /\ UNCHANGED listed
    /\ listLoading' = FALSE
    /\ UNCHANGED <<deletingId, deletes, deletedOk, alerts, served, deletesLeft>>
    /\ UNCHANGED outsideDocumentList

\* the delete button of a document is clicked and confirmed:
\* setDeletingId(documentId), then deleteDocument is awaited
HandleDelete(d) ==
    /\ deletesLeft > 0
    /\ ListRendered
    /\ Shown(listed, d)
    /\ deletingId # d
    /\ deletingId' = d
    /\ deletes' = deletes \cup {[id |-> d, documents |-> listed, n |-> deletesLeft]}
    /\ deletesLeft' = deletesLeft - 1
    /\ UNCHANGED <<listed, listLoading, listError, listPc, deletedOk, alerts, served>>
    /\ UNCHANGED outsideDocumentList

\* deleteDocument settles: setDocuments(documents.filter(...)) with the
\* documents of the render the call was made in, or alert(); finally
\* setDeletingId(null)
DeleteSettles(del, outcome) ==
    /\ del \in deletes
    /\ deletes' = deletes \ {del}
    /\ IF outcome = "ok"
       THEN /\ Shown(served, del.id)
            /\ served' = WithoutDocument(served, del.id)
            /\ listed' = WithoutDocument(del.documents, del.id)
            /\ deletedOk' = deletedOk \cup {del.id}
            /\ UNCHANGED alerts
       ELSE /\ alerts' = alerts + 1
            /\ UNCHANGED <<served, listed, deletedOk>>
    /\ deletingId' = Null
    /\ UNCHANGED <<listLoading, listError, listPc, deletesLeft>>
    /\ UNCHANGED outsideDocumentList

InitDocumentList == Init /\ url = Null /\ token \in Tokens

NextDocumentList ==
    \/ \E outcome \in {"ok", "not ok"} : FetchDocumentsSettles(outcome)
    \/ \E d \in ListIds : HandleDelete(d)
    \/ \E del \in deletes : \E outcome \in {"ok", "not ok"} :
          DeleteSettles(del, outcome)

SpecDocumentList == InitDocumentList /\ [][NextDocumentList]_vars

\* C24: a document deleteDocument has succeeded for is not in the list
\* DocumentList shows.
C24_DeletedStaysGone ==
    \A d \in deletedOk : ~Shown(listed, d)

---------------------------------------------------------------------------
\* C25: whenever AuthProvider holds a user a token is stored, and the step
\* a handleLogout call ends with, its request answered or rejected, leaves
\* no user and no token.
C25_UserHasToken ==
    /\ [](user # Null => token # Null)
    /\ [][ (\E i \in DOMAIN logouts :
               /\ logouts[i] = "handleLogout"
               /\ logouts' = Without(logouts, i)) =>
              (user' = Null /\ token' = Null) ]_vars

---------------------------------------------------------------------------
(* api.getCurrentUser.                                                     *)

MeStatuses == {OK, 201, 401, 403, 404, 500}

\* response.ok
ResponseOk(status) == status >= 200 /\ status <= 299

\* await response.json(): the value, or the error it rejects with
ResponseJson(body) ==
    IF body.kind = "text" THEN Rejected(Lit("SyntaxError")) ELSE Resolved(body)

\* error.detail || fallback, for the value response.json() gave
DetailOr(value, fallback) ==
    IF value.kind = "null" THEN Rejected(Lit("TypeError"))
    ELSE IF value.detail = <<>> THEN Rejected(fallback) ELSE Rejected(value.detail)

\* getCurrentUser after its fetch has resolved: the token it leaves stored
\* and how it settles
GetCurrentUser(status, body, stored) ==
    IF ~ResponseOk(status)
    THEN IF status = 401
         THEN [token |-> Null, result |-> Rejected(Lit("Unauthorized"))]
         ELSE [token |-> stored,
               result |-> IF ~ResponseJson(body).ok THEN ResponseJson(body)
                          ELSE DetailOr(body, Lit("Failed to get user"))]
    ELSE [token |-> stored, result |-> ResponseJson(body)]

\* getCurrentUser is called: authenticatedFetch("/api/auth/me")
GetCurrentUserCalled ==
    /\ mePc = "idle"
    /\ meLeft > 0
    /\ meLeft' = meLeft - 1
    /\ mePc' = "awaiting"
    /\ meAnswer' = NoAnswer
    /\ meResult' = <<>>
    /\ sent' = sent \cup {AuthenticatedFetch(<<"/api/auth/me">>, token)}
    /\ UNCHANGED <<token, lastCall, callsLeft>>
    /\ UNCHANGED outsideCurrentUser

\* the server answers
GetCurrentUserAnswered(status, body) ==
    /\ mePc = "awaiting"
    /\ mePc' = "idle"
    /\ meAnswer' = [status |-> status, body |-> body]
    /\ LET r == GetCurrentUser(status, body, token)
       IN /\ token' = r.token
          /\ meResult' = r.result
    /\ UNCHANGED meLeft
    /\ UNCHANGED <<calls, outsideCurrentUser>>

\* the fetch rejects
GetCurrentUserFetchFails ==
    /\ mePc = "awaiting"
    /\ mePc' = "idle"
    /\ meResult' = Rejected(Lit("Failed to fetch"))
    /\ UNCHANGED <<meAnswer, meLeft, token>>
    /\ UNCHANGED <<calls, outsideCurrentUser>>

\* login or register stores the access token of its answer: setToken
SetToken(t) ==
    /\ mePc = "idle"
    /\ token # t
    /\ token' = t
    /\ UNCHANGED currentUser
    /\ UNCHANGED <<calls, outsideCurrentUser>>

InitCurrentUser == Init /\ url = Null

NextCurrentUser ==
    \/ GetCurrentUserCalled
    \/ \E status \in MeStatuses : \E body \in ResponseTexts :
          GetCurrentUserAnswered(status, body)
    \/ GetCurrentUserFetchFails
    \/ \E t \in Tokens : SetToken(t)

SpecCurrentUser == InitCurrentUser /\ [][NextCurrentUser]_vars

\* the step a getCurrentUser call is answered with
MeAnswered == mePc = "awaiting" /\ meAnswer' # NoAnswer

\* C26: answered with 401, getCurrentUser removes the token and fails with
\* Unauthorized; answered with another status that is not ok, it fails
\* with the detail of the answer, or with Failed to get user, and leaves
\* the token as it is; answered ok, it leaves the token as it is.
C26_CurrentUserOutcome ==
    [][ MeAnswered =>
          LET status == meAnswer'.status
              body == meAnswer'.body
          IN /\ status = 401 =>
                   /\ token' = Null
                   /\ meResult' = Rejected(Lit("Unauthorized"))
             /\ (~ResponseOk(status) /\ status # 401) =>
                   /\ token' = token
                   /\ meResult' \in {Rejected(body.detail),
                                     Rejected(Lit("Failed to get user"))}
                   /\ body.detail = <<>> =>
                         meResult' = Rejected(Lit("Failed to get user"))
             /\ ResponseOk(status) => token' = token ]_vars

---------------------------------------------------------------------------
(* RegisterPage: validateForm and handleSubmit.                            *)

At == "@"

\* what the user may type into the fields
Usernames == { <<>>, <<"a", "b">>, <<"a", "b", "c">> }
Emails == { <<"a">>, <<"a", At, "b">> }
Passwords ==
    { <<"1", "2", "3", "4", "5", "6", "7">>,
      <<"1", "2", "3", "4", "5", "6", "7", "8">>,
      <<"1", "2", "3", "4", "5", "6", "7", "9">> }

\* email.includes("@")
Includes(s, ch) == \E i \in DOMAIN s : s[i] = ch

MinUsername == 3
MinPassword == 8

\* the passwords compared before the length of the password is looked at
ValidateFormMatchFirst(u, e, p, c) ==
    IF Len(u) < MinUsername THEN Lit("Username must be at least 3 characters")
    ELSE IF ~Includes(e, At) THEN Lit("Please enter a valid email address")
    ELSE IF p # c THEN Lit("Passwords do not match")
    ELSE IF Len(p) < MinPassword
         THEN Lit("Password must be at least 8 characters")
    ELSE Null

\* validateForm: the message of the first check that fails, or null
ValidateForm(u, e, p, c) ==
    IF Len(u) < MinUsername THEN Lit("Username must be at least 3 characters")
    ELSE IF ~Includes(e, At) THEN Lit("Please enter a valid email address")
    ELSE IF Len(p) < MinPassword
         THEN Lit("Password must be at least 8 characters")
    ELSE IF p # c THEN Lit("Passwords do not match")
    ELSE Null

\* the user types into the fields; they are disabled while loading
Type(u, e, p, c) ==
    /\ ~registerLoading
    /\ <<u, e, p, c>> # <<username, email, password, confirmPassword>>
    /\ username' = u
    /\ email' = e
    /\ password' = p
    /\ confirmPassword' = c
    /\ UNCHANGED <<registerError, registerLoading, registered, registerPc,
                   submitsLeft>>
    /\ UNCHANGED outsideRegisterPage

\* handleSubmit up to the await of register
HandleSubmit ==
    /\ registerPc = "idle"
    /\ submitsLeft > 0
    /\ submitsLeft' = submitsLeft - 1
    /\ LET validationError ==
               ValidateForm(username, email, password, confirmPassword)
       IN IF validationError # Null
          THEN /\ registerError' = validationError
               /\ UNCHANGED <<registerLoading, registered, registerPc>>
          ELSE /\ registerError' = <<>>
               /\ registerLoading' = TRUE
               /\ registered' = Append(registered, <<username, email, password>>)
               /\ registerPc' = "register"
    /\ UNCHANGED <<username, email, password, confirmPassword>>
    /\ UNCHANGED outsideRegisterPage

\* register settles: the error is shown if it failed; finally
\* setLoading(false)
RegisterSettles(outcome) ==
    /\ registerPc = "register"
    /\ registerPc' = "idle"
    /\ registerError' = IF outcome = "ok" THEN registerError
                        ELSE Lit("Registration failed")
    /\ registerLoading' = FALSE
    /\ UNCHANGED <<username, email, password, confirmPassword, registered,
                   submitsLeft>>
    /\ UNCHANGED outsideRegisterPage

InitRegisterPage == Init /\ url = Null /\ token = Null

NextRegisterPage ==
    \/ \E u \in Usernames : \E e \in Emails : \E p \in Passwords :
          \E c \in Passwords : Type(u, e, p, c)
    \/ HandleSubmit
    \/ \E outcome \in {"ok", "failed"} : RegisterSettles(outcome)

SpecRegisterPage == InitRegisterPage /\ [][NextRegisterPage]_vars

\* C27: a submission of the form calls register, with the username, the
\* email and the password of the form, exactly when the username has 3
\* characters or more, the email has an @, the password has 8 characters
\* or more and equals its confirmation; otherwise it shows the message of
\* the first of these checks that fails, calls nothing and leaves loading
\* false.
C27_RegisterValidated ==
    [][ submitsLeft' # submitsLeft =>
          LET shortName == Len(username) < 3
              noAt == \A i \in DOMAIN email : email[i] # "@"
              shortPassword == Len(password) < 8
              mismatch == password # confirmPassword
          IN IF shortName \/ noAt \/ shortPassword \/ mismatch
             THEN /\ registered' = registered
                  /\ registerLoading' = FALSE
                  /\ registerError' =
                       IF shortName
                       THEN <<"Username must be at least 3 characters">>
                       ELSE IF noAt
                       THEN <<"Please enter a valid email address">>
                       ELSE IF shortPassword
                       THEN <<"Password must be at least 8 characters">>
                       ELSE <<"Passwords do not match">>
             ELSE /\ registered' =
                       Append(registered, <<username, email, password>>)
                  /\ registerLoading' = TRUE
                  /\ registerError' = <<>> ]_vars

\* a password of 7 characters with another confirmation was refused for
\* its length, after a first submission had called register and failed
C27_Witness ==
    /\ submitsLeft = 0
    /\ Len(registered) = 1
    /\ Len(username) = 3
    /\ Len(password) = 7
    /\ password # confirmPassword
    /\ registerError = <<"Password must be at least 8 characters">>
    /\ ~registerLoading

---------------------------------------------------------------------------
(* useWeaknessAnalysis: fetchAnalysis, fetchMockAnalysis, clearAnalysis.   *)

FetchKinds == {"fetchAnalysis", "fetchMockAnalysis"}

\* what analyzeWeakness or getMockWeaknessAnalysis may resolve with
AnalysisResults == {"r1", "r2"}

\* fetchAnalysis or fetchMockAnalysis up to its await: setIsLoading(true),
\* setError(null)
FetchStarts(kind) ==
    /\ fetchesLeft > 0
    /\ fetchesLeft' = fetchesLeft - 1
    /\ analysisIsLoading' = TRUE
    /\ analysisError' = Null
    /\ fetches' = fetches \cup {[kind |-> kind, n |-> fetchesLeft]}
    /\ UNCHANGED <<analysis, lastSettled>>
    /\ UNCHANGED outsideWeaknessAnalysis

\* the request resolves: setAnalysis(result); finally setIsLoading(false)
FetchResolves(f, result) ==
    /\ f \in fetches
    /\ fetches' = fetches \ {f}
    /\ analysis' = result
    /\ analysisIsLoading' = FALSE
    /\ lastSettled' = "resolved"
    /\ UNCHANGED <<analysisError, fetchesLeft>>
    /\ UNCHANGED outsideWeaknessAnalysis

\* the request rejects: setError(message), setAnalysis(null); finally
\* setIsLoading(false)
FetchRejects(f) ==
    /\ f \in fetches
    /\ fetches' = fetches \ {f}
    /\ analysisError' = "Analysis failed"
    /\ analysis' = Null
    /\ analysisIsLoading' = FALSE
    /\ lastSettled' = "rejected"
    /\ UNCHANGED fetchesLeft
    /\ UNCHANGED outsideWeaknessAnalysis

\* clearAnalysis: setAnalysis(null), setError(null)
ClearAnalysis ==
    /\ fetchesLeft > 0
    /\ fetchesLeft' = fetchesLeft - 1
    /\ analysis' = Null
    /\ analysisError' = Null
    /\ lastSettled' = "cleared"
    /\ UNCHANGED <<analysisIsLoading, fetches>>
    /\ UNCHANGED outsideWeaknessAnalysis

InitWeaknessAnalysis == Init /\ url = Null /\ token \in Tokens

NextWeaknessAnalysis ==
    \/ \E kind \in FetchKinds : FetchStarts(kind)
    \/ \E f \in fetches : \E result \in AnalysisResults :
          FetchResolves(f, result)
    \/ \E f \in fetches : FetchRejects(f)
    \/ ClearAnalysis

SpecWeaknessAnalysis == InitWeaknessAnalysis /\ [][NextWeaknessAnalysis]_vars

\* C28: when no call is in progress, analysis and error are not both set;
\* if the call that settled last was a fetch that succeeded, analysis is
\* set and error is null; if it was a fetch that failed, error is set and
\* analysis is null.
C28_AnalysisOrError ==
    fetches = {} =>
        /\ ~(analysis # Null /\ analysisError # Null)
        /\ lastSettled = "resolved" => (analysis # Null /\ analysisError = Null)
        /\ lastSettled = "rejected" => (analysisError # Null /\ analysis = Null)

====
